---- MODULE Spec2Model ----
(***************************************************************************)
(* A model of neo4j/aio/bolt/v3.py: the Bolt v3 session layer.             *)
(*                                                                         *)
(* One Connection (Bolt3) with its Courier, the Responses the Courier has  *)
(* created, the Transactions and Results handed to the caller, and the     *)
(* server at the far end of the stream.  Every public coroutine is one     *)
(* action: the caller drives a Connection from a single task, so a         *)
(* coroutine runs from its call to its exit (or to the read it waits on    *)
(* for ever) without another operation of the same Connection in between.  *)
(* run_tx is the one exception, it calls back into the caller's function,  *)
(* and is split at that call.                                              *)
(***************************************************************************)
EXTENDS Integers, Sequences, FiniteSets

\* Bounds of the model.
MaxReq == 5          \* requests the caller's operations write
MaxTx == 3           \* Transaction objects created
MaxRes == 2          \* Result objects created
MaxRecords == 2      \* RECORD messages the server sends for one PULL_ALL
MaxReqFail == 3      \* requests written where the caller also calls fail itself
MaxReqClose == 3     \* requests written where the caller also closes the Connection
MaxReqIllegal == 3   \* requests written where the codec delivers an illegal message

VARIABLES
  courier,   \* the Courier, its stream, its Responses, and the server behind it
  txs,       \* the Transaction objects, by creation order
  results,   \* the Result objects, by creation order
  conn,      \* the Bolt3 object: [tx |-> the active-transaction slot, 0 for None,
             \*   closed |-> Bolt.closed, torn |-> times the transport was torn down]
  runtx,     \* run_tx suspended in the caller's function: [on, tx]
  task,      \* "idle", or "blocked" once a read waits for a reply that never comes
  last       \* the last operation: what was called and how it ended

vars == <<courier, txs, results, conn, runtx, task, last>>

(***************************************************************************)
(* Exceptions and values                                                   *)
(***************************************************************************)
Exc(type, r) == [type |-> type, resp |-> r]
NoExc == Exc("none", 0)
\* BoltFailure(message, address, code, response): identified by the
\* Response whose FAILURE summary it was raised for.
BoltFailure(r) == Exc("BoltFailure", r)
BoltTransactionError == Exc("BoltTransactionError", 0)
BoltConnectionLost == Exc("BoltConnectionLost", 0)
BoltError == Exc("BoltError", 0)
TypeError == Exc("TypeError", 0)
AttributeError == Exc("AttributeError", 0)
UserError == Exc("UserError", 0)
\* Not an exception: the coroutine awaits a message that never arrives.
Blocked == Exc("blocked", 0)

\* What an operation is working on and how far it got: the Courier c, the
\* Transactions txs, the exception raised (NoExc while it runs), the value
\* returned by the call just made, the Response returned by the last _write,
\* and the two Responses of the Result a run creates.
\* An operator applied to an operation that has raised leaves it as it is:
\* the exception propagates through the calls that follow.
Raise(o, e) == [o EXCEPT !.exc = e]
Raised(o) == o.exc # NoExc

\* An inbound message (and a summary once stored).  "of" is the request the
\* server sent it in reply to, "n" the position of a RECORD in its stream.
Msg(kind, r, n) == [kind |-> kind, of |-> r, n |-> n]
None == Msg("none", 0, 0)
Summaries == {"SUCCESS", "IGNORED", "FAILURE"}

(***************************************************************************)
(* Response                                                                *)
(***************************************************************************)
\* Response.__init__.  tag, tx and stale are bookkeeping about the request:
\* its message tag, the Transaction that wrote it, and whether it was
\* written after a FAILURE that no flushed RESET has followed.
\* got, puts and late are history: every record ever put, the number of
\* put_summary calls, and whether a record was put after the summary.
Response(tag, tx, stale) ==
  [records |-> <<>>, summary |-> None,
   tag |-> tag, tx |-> tx, stale |-> stale,
   got |-> <<>>, puts |-> 0, late |-> FALSE]

\* A faulty put_record for comparison: self._records.appendleft(record), a
\* stack instead of a FIFO.
push_record(response, record) ==
  [response EXCEPT !.records = <<record>> \o @,
                   !.got = Append(@, record),
                   !.late = @ \/ (response.summary # None)]

\* Response.put_record
put_record(response, record) ==
  [response EXCEPT !.records = Append(@, record),
                   !.got = Append(@, record),
                   !.late = @ \/ (response.summary # None)]

\* Response.put_summary
put_summary(response, summary) ==
  [response EXCEPT !.summary = summary, !.puts = @ + 1]

(***************************************************************************)
(* The server and the stream (PackStream over the transport)               *)
(***************************************************************************)
Event(ev, tag, rid, extras, ok) ==
  [ev |-> ev, tag |-> tag, rid |-> rid, extras |-> extras, ok |-> ok]
NoExtras == [keys |-> {}, mode |-> "", bookmarks |-> <<>>, tx_timeout |-> 0, tx_metadata |-> {}]

Records(rid, k) == [i \in 1..k |-> Msg("RECORD", rid, i)]

\* The server's replies to one request.  A FAILURE leaves the server
\* ignoring every request until a RESET; RESET always succeeds.
\* fail: the server fails this request; k: records a PULL_ALL streams.
Reply(m, failed, fail, k) ==
  IF m.tag = "GOODBYE" THEN <<>>
  ELSE IF m.tag = "RESET" THEN <<Msg("SUCCESS", m.rid, 0)>>
  ELSE IF failed THEN <<Msg("IGNORED", m.rid, 0)>>
  ELSE (IF m.tag = "PULL_ALL" THEN Records(m.rid, k) ELSE <<>>)
       \o <<Msg(IF fail THEN "FAILURE" ELSE "SUCCESS", m.rid, 0)>>

ServerFailed(m, failed, fail) ==
  IF m.tag = "RESET" THEN FALSE ELSE failed \/ fail

\* The server reads the flushed requests in order and appends its replies to
\* the inbound stream.  env.failAt is the position (in this flush) of the
\* request the server fails, 0 for none.
RECURSIVE Serve(_, _, _, _)
Serve(c, batch, i, env) ==
  IF batch = <<>> THEN c
  ELSE Serve([c EXCEPT !.inbound = @ \o Reply(Head(batch), c.server_failed,
                                               i = env.failAt, env.nrec),
                       !.server_failed = ServerFailed(Head(batch), @, i = env.failAt)],
             Tail(batch), i + 1, env)

\* What the far end does with one flush: the transport is lost, or the
\* server fails the request at position failAt of the flush (0: none) and
\* streams nrec records for a PULL_ALL.
Quiet == [lost |-> FALSE, failAt |-> 0, nrec |-> 0]
Lost == [lost |-> TRUE, failAt |-> 0, nrec |-> 0]

Tags(c, written) ==
  [i \in 1..Len(c.outbuf) |-> c.outbuf[i].tag] \o [i \in 1..Len(written) |-> written[i].tag]

Failable(failed, batch) ==
  {i \in 1..Len(batch) :
     /\ batch[i] \notin {"RESET", "GOODBYE"}
     /\ ~failed \/ \E j \in 1..(i - 1) : batch[j] = "RESET"}

\* The choices that make a difference to the flush an operation performs:
\* c is the Courier when the operation is called, trace what the operation
\* does when the far end is quiet.  An operation flushes at most once, after
\* all it writes.
Choices(c, trace) ==
  IF c.lost \/ \A i \in 1..Len(trace) : trace[i].ev # "send" THEN {Quiet}
  ELSE {Lost} \cup
       [lost : {FALSE},
        failAt : {0} \cup Failable(c.server_failed,
                                   Tags(c, SelectSeq(trace, LAMBDA e : e.ev = "write"))),
        nrec : IF (\E i \in 1..Len(trace) : trace[i].tag = "PULL_ALL")
                  \/ (\E j \in 1..Len(c.outbuf) : c.outbuf[j].tag = "PULL_ALL")
               THEN 0..MaxRecords ELSE {0}]

(***************************************************************************)
(* Courier                                                                 *)
(***************************************************************************)
\* Courier.__init__, and the far end: a server that has finished the
\* handshake and is ready.
NewCourier ==
  [outbuf |-> <<>>,     \* the stream's write buffer: requests not yet flushed
   inbound |-> <<>>,    \* the replies the server has sent and nobody has read
   responses |-> <<>>,  \* Courier.responses: the Responses awaiting a summary
   resp |-> <<>>,       \* every Response created, by creation order
   server_failed |-> FALSE, lost |-> FALSE,
   unreset |-> FALSE,   \* a FAILURE was read and no RESET flushed since
   illegal |-> FALSE,   \* history: _read has raised BoltError on a message
   trace |-> <<>>]      \* what the current operation wrote, sent and read

\* Courier._write: encode the message into the stream's buffer, append a
\* fresh Response to the queue and return it.
_write(o, tag, tx, extras) ==
  [o EXCEPT !.rid = Len(o.c.resp) + 1,
            !.c.outbuf = Append(@, [tag |-> tag, rid |-> Len(o.c.resp) + 1]),
            !.c.resp = Append(@, Response(tag, tx, o.c.unreset /\ tag # "RESET")),
            !.c.responses = Append(@, Len(o.c.resp) + 1),
            !.c.trace = Append(@, Event("write", tag, Len(o.c.resp) + 1, extras, TRUE))]

Flushed(c) ==
  [c EXCEPT !.outbuf = <<>>,
            !.unreset = @ /\ (\A i \in 1..Len(c.outbuf) : c.outbuf[i].tag # "RESET"),
            !.trace = Append(@, Event("send", "", 0, NoExtras, TRUE))]

\* Courier.send: stream.drain().  On a lost transport it raises
\* BoltConnectionLost; otherwise everything buffered reaches the server.
send(o, env) ==
  IF o.c.lost \/ env.lost
  THEN [o EXCEPT !.exc = BoltConnectionLost, !.c.lost = TRUE,
                 !.c.trace = Append(@, Event("send", "", 0, NoExtras, FALSE))]
  ELSE [o EXCEPT !.c = Serve(Flushed(o.c), o.c.outbuf, 1, env)]

\* Courier._read: the next inbound message, or the wait for it.
_read(o) ==
  IF o.c.inbound = <<>> THEN Raise(o, Blocked)
  ELSE IF Head(o.c.inbound).kind \in Summaries \cup {"RECORD"}
  THEN [o EXCEPT !.val = Head(o.c.inbound), !.c.inbound = Tail(@)]
  ELSE [o EXCEPT !.exc = BoltError, !.c.inbound = Tail(@), !.c.illegal = TRUE]

\* The stop predicates the callers pass to fetch.
stop(c, pred, r) ==
  CASE pred = "never" -> FALSE                            \* lambda: None
    [] pred = "records" -> c.resp[r].records # <<>>       \* bool(self._records)
    [] pred = "summary" -> c.resp[r].summary # None       \* self._summary is not None

\* A faulty first for comparison: self.responses[-1], the newest Response.
newest(responses) == responses[Len(responses)]

\* A faulty popleft for comparison: self.responses.pop(), which dequeues the
\* newest Response instead of the oldest.
popright(responses) == SubSeq(responses, 1, Len(responses) - 1)

\* self.responses[0] and self.responses.popleft()
first(responses) == Head(responses)
popleft(responses) == Tail(responses)

Read(c, kind, rid) == [c EXCEPT !.trace = Append(@, Event("read", kind, rid, NoExtras, TRUE))]

\* fetch on a RECORD: self.responses[0].put_record(fetched)
on_record(o) ==
  [o EXCEPT !.c = [Read(o.c, o.val.kind, first(o.c.responses))
                   EXCEPT !.resp[first(o.c.responses)] = put_record(@, o.val)]]

\* fetch on a summary: response = self.responses.popleft();
\* response.put_summary(fetched); raise BoltFailure if it is a failure
on_summary(o) ==
  [o EXCEPT !.c = [Read(o.c, o.val.kind, first(o.c.responses))
                   EXCEPT !.responses = popleft(@),
                          !.resp[first(o.c.responses)] = put_summary(@, o.val),
                          !.unreset = @ \/ o.val.kind = "FAILURE"],
            !.exc = IF o.val.kind = "FAILURE" THEN BoltFailure(first(o.c.responses))
                    ELSE NoExc]

\* Courier.fetch
RECURSIVE fetch(_, _, _)
fetched(o, pred, r) ==
  IF Raised(o) THEN o
  ELSE IF o.val.kind = "RECORD" THEN fetch(on_record(o), pred, r)
  ELSE fetch(on_summary(o), pred, r)

fetch(o, pred, r) ==
  IF Raised(o) \/ o.c.responses = <<>> \/ stop(o.c, pred, r) THEN o
  ELSE fetched(_read(o), pred, r)

\* Response.get_record: pop the next record, fetching while there is neither
\* a record nor a summary; None at the end of the records.
RECURSIVE get_record(_, _)
get_record(o, r) ==
  IF Raised(o) THEN o
  ELSE IF o.c.resp[r].records # <<>>
  THEN [o EXCEPT !.val = Head(o.c.resp[r].records), !.c.resp[r].records = Tail(@)]
  ELSE IF o.c.resp[r].summary = None
  THEN get_record(fetch(o, "records", r), r)
  ELSE [o EXCEPT !.val = None]

Summary(o, r) == IF Raised(o) THEN o ELSE [o EXCEPT !.val = o.c.resp[r].summary]

\* Response.get_summary
get_summary(o, r) == Summary(fetch(o, "summary", r), r)

(***************************************************************************)
(* Transaction                                                             *)
(***************************************************************************)
\* The arguments of Connection.run, begin and run_tx.  timeout is in units
\* of 1/2000 s (1 is 0.0005 s, 1000 is 0.5 s); 0 stands for None and for 0,
\* which _add_extra treats alike.  metadata is the set of its keys.
NoArgs == [readonly |-> FALSE, bookmarks |-> <<>>, timeout |-> 0, metadata |-> {}]
\* The calls explored: the defaults, bookmarks alone, a timeout alone, and
\* every argument at once.
Calls ==
  {NoArgs, [NoArgs EXCEPT !.bookmarks = <<"b0">>], [NoArgs EXCEPT !.timeout = 1000],
   [readonly |-> TRUE, bookmarks |-> <<"b0">>, timeout |-> 1, metadata |-> {"k"}]}

\* Transaction.__init__ with _add_extra: the extras BEGIN or RUN carries.
\* A key is added only for a truthy value; tx_timeout is int(1000 * x).
Extras(args) ==
  [keys |-> (IF args.readonly THEN {"mode"} ELSE {})
            \cup (IF args.bookmarks # <<>> THEN {"bookmarks"} ELSE {})
            \cup (IF args.timeout # 0 THEN {"tx_timeout"} ELSE {})
            \cup (IF args.metadata # {} THEN {"tx_metadata"} ELSE {}),
   mode |-> IF args.readonly THEN "R" ELSE "",
   bookmarks |-> args.bookmarks,
   tx_timeout |-> (1000 * args.timeout) \div 2000,
   tx_metadata |-> args.metadata]

\* Transaction.__init__.  _extras is not kept in the object: it is read only
\* by the call that constructs the Transaction (begin writes it at once; run
\* reads it for an auto-commit transaction, which Bolt3.run runs at once and
\* which is closed, and so rejected, on any later run).
\* did: which of these have happened: "commit" and "rollback" (the call got
\* past its checks and left its try block), "fail" (fail was called),
\* "run_send" (the send of an auto-commit run was left).
\* held: whether the caller or the Connection holds the object.
Transaction(autocommit) ==
  [autocommit |-> autocommit, closed |-> FALSE, failure |-> NoExc, did |-> {},
   held |-> TRUE]

New(o, autocommit) == [o EXCEPT !.txs = Append(@, Transaction(autocommit))]

Did(o, t, what) == [o EXCEPT !.txs[t].did = @ \cup {what}]

\* finally: self._closed = True
Closed(o, t, what) == [o EXCEPT !.txs[t].closed = TRUE, !.txs[t].did = @ \cup {what}]

\* A faulty _assert_open for comparison: it never raises.
AlwaysOpen(tx) == NoExc

\* Transaction._assert_open
_assert_open(tx) == IF tx.closed THEN BoltTransactionError ELSE NoExc

\* A faulty Transaction.begin for comparison: it syncs whatever the bookmarks.
EagerBegin(o, t, args, env) ==
  fetch(send(_write(o, "BEGIN", t, Extras(args)), env), "never", 0)

\* Transaction.begin after the constructor: write BEGIN, and with bookmarks
\* send and fetch.
Transaction_begin(o, t, args, env) ==
  IF args.bookmarks # <<>>
  THEN fetch(send(_write(o, "BEGIN", t, Extras(args)), env), "never", 0)
  ELSE _write(o, "BEGIN", t, Extras(args))

\* The body request of a run
BodyTag(discard) == IF discard THEN "DISCARD_ALL" ELSE "PULL_ALL"

\* A faulty RunExtras for comparison: RUN never carries the extras.
NoRunExtras(tx, extras) == NoExtras

\* The extras a RUN carries: the transaction's own for an auto-commit
\* transaction, {} inside an explicit one.
RunExtras(tx, extras) == IF tx.autocommit THEN extras ELSE NoExtras

\* A faulty WriteRun for comparison: the body request is written before RUN.
HeadAfter(body, t, extras) ==
  [_write(body, "RUN", t, RunExtras(body.txs[t], extras))
     EXCEPT !.head = body.rid + 1, !.body = body.rid]
BodyFirst(o, t, discard, extras) ==
  HeadAfter(_write(o, BodyTag(discard), t, NoExtras), t, extras)

Pair(head, body) == [body EXCEPT !.head = head.rid, !.body = body.rid]
WriteBody(head, t, discard) == Pair(head, _write(head, BodyTag(discard), t, NoExtras))
WriteRun(o, t, discard, extras) ==
  WriteBody(_write(o, "RUN", t, RunExtras(o.txs[t], extras)), t, discard)

\* Transaction.run; head and body are the Responses of the Result it returns.
Transaction_run(o, t, discard, extras, env) ==
  IF _assert_open(o.txs[t]) # NoExc THEN Raise(o, _assert_open(o.txs[t]))
  ELSE IF o.txs[t].autocommit
  THEN Closed(send(WriteRun(o, t, discard, extras), env), t, "run_send")
  ELSE WriteRun(o, t, discard, extras)

AutocommitRejected(tx) == IF tx.autocommit THEN BoltTransactionError ELSE NoExc

\* Bookmark(summary.metadata.get("bookmark")): Ignored has no metadata
Bookmark(o) ==
  IF ~Raised(o) /\ o.val.kind = "IGNORED" THEN Raise(o, AttributeError) ELSE o

Committed(o) == Bookmark(get_summary(o, o.rid))
CommitSent(o) == Committed(fetch(o, "never", 0))

\* Transaction.commit
Transaction_commit(o, t, env) ==
  IF _assert_open(o.txs[t]) # NoExc THEN Raise(o, _assert_open(o.txs[t]))
  ELSE IF AutocommitRejected(o.txs[t]) # NoExc THEN Raise(o, AutocommitRejected(o.txs[t]))
  ELSE Closed(CommitSent(send(_write(o, "COMMIT", t, NoExtras), env)), t, "commit")

\* Transaction.rollback
Transaction_rollback(o, t, env) ==
  IF _assert_open(o.txs[t]) # NoExc THEN Raise(o, _assert_open(o.txs[t]))
  ELSE IF AutocommitRejected(o.txs[t]) # NoExc THEN Raise(o, AutocommitRejected(o.txs[t]))
  ELSE Closed(fetch(send(_write(o, "ROLLBACK", t, NoExtras), env), "never", 0),
              t, "rollback")

\* The end of fail: self._closed = True; self._failure = failure
Failed(tx, failure) == [tx EXCEPT !.closed = TRUE, !.failure = failure]

\* A faulty Reset for comparison: fail without the RESET round trip.
NoReset(o, t, env) == o

FailRaise(o, t, failure) ==
  IF Raised(o) THEN o ELSE Raise([o EXCEPT !.txs[t] = Failed(@, failure)], failure)
Reset(o, t, env) == fetch(send(_write(o, "RESET", t, NoExtras), env), "never", 0)

\* Transaction.fail: o is the operation once it has caught the failure
fail(o, t, failure, env) ==
  IF o.txs[t].failure = NoExc
  THEN FailRaise(Reset(Did(o, t, "fail"), t, env), t, failure)
  ELSE [Did(o, t, "fail") EXCEPT !.val = None]

(***************************************************************************)
(* Result                                                                  *)
(***************************************************************************)
\* Result.__init__; yielded is the history of what iteration returned.
Result(tx, head, body) == [tx |-> tx, head |-> head, body |-> body, yielded |-> <<>>]

StopAsyncIteration == Exc("StopAsyncIteration", 0)

\* except BoltFailure as failure: await self._tx.fail(failure)
OnFailure(o, t, env) ==
  IF o.exc.type = "BoltFailure" THEN fail(Raise(o, NoExc), t, o.exc, env) ELSE o

\* Result.get_header
get_header(o, result, env) == OnFailure(get_summary(o, result.head), result.tx, env)

\* Result.consume
consume(o, result, env) == OnFailure(get_summary(o, result.body), result.tx, env)

\* header.metadata, which None and Ignored do not have
Metadata(o) ==
  IF o.exc = NoExc /\ o.val.kind \in {"none", "IGNORED"} THEN Raise(o, AttributeError) ELSE o

\* Result.fields
fields(o, result, env) == Metadata(get_header(o, result, env))

\* Record(zip(await self.fields(), values))
Record(o, values) == IF o.exc # NoExc THEN o ELSE [o EXCEPT !.val = values]

Values(o, result, env) ==
  IF o.exc # NoExc THEN OnFailure(o, result.tx, env)
  ELSE IF o.val = None THEN Raise(o, StopAsyncIteration)
  ELSE Record(fields(o, result, env), o.val)

\* Result.__anext__.  val is the record returned, None when fail returned
\* instead of raising.
anext(o, result, env) == Values(get_record(o, result.body), result, env)

(***************************************************************************)
(* Connection (Bolt3)                                                      *)
(***************************************************************************)
\* Bolt3.ready: not self._tx or self._tx.closed
ready(cn, ts) == cn.tx = 0 \/ ts[cn.tx].closed

\* A faulty _assert_ready for comparison: it never raises.
AlwaysReady(cn, ts) == NoExc

\* Bolt3._assert_ready
_assert_ready(cn, ts) == IF ~ready(cn, ts) THEN BoltTransactionError ELSE NoExc

\* Bolt3.run: self._tx is assigned before Transaction.run is awaited.
Bolt3_run(o, cn, args, discard, env) ==
  IF _assert_ready(cn, o.txs) # NoExc THEN Raise(o, _assert_ready(cn, o.txs))
  ELSE Transaction_run(New(o, TRUE), Len(o.txs) + 1, discard, Extras(args), env)

\* A Transaction that Transaction.begin raised out of is held by nobody.
Dropped(o, t) == IF o.exc # NoExc THEN [o EXCEPT !.txs[t].held = FALSE] ELSE o

\* Bolt3.begin: self._tx is assigned only if Transaction.begin returns.
Bolt3_begin(o, cn, args, env) ==
  IF _assert_ready(cn, o.txs) # NoExc THEN Raise(o, _assert_ready(cn, o.txs))
  ELSE Dropped(Transaction_begin(New(o, FALSE), Len(o.txs) + 1, args, env), Len(o.txs) + 1)

\* iscoroutinefunction(f), and the exception for a function that is not
NotAwaitable(coroutine) == IF ~coroutine THEN TypeError ELSE NoExc

\* The arguments Bolt3.run_tx passes on to begin: timeout=None.
RunTxArgs(args) == [args EXCEPT !.timeout = 0]

\* Bolt3.run_tx up to the call of f
RunTxBegun(o, coroutine) == IF Raised(o) THEN o ELSE Raise(o, NotAwaitable(coroutine))
Bolt3_run_tx(o, cn, args, coroutine, env) ==
  RunTxBegun(Bolt3_begin(o, cn, RunTxArgs(args), env), coroutine)

\* The exception that leaves "except Exception: await tx.rollback(); raise"
Reraise(rollback_exc, e) == IF rollback_exc # NoExc THEN rollback_exc ELSE e

RolledBack(o, e) == Raise(o, Reraise(o.exc, e))

\* Bolt3.run_tx once f has raised e
Bolt3_run_tx_except(o, t, e, env) == RolledBack(Transaction_rollback(o, t, env), e)

(***************************************************************************)
(* The state machine                                                       *)
(***************************************************************************)
Heap ==
  [c |-> [courier EXCEPT !.trace = <<>>], txs |-> txs, exc |-> NoExc, val |-> None,
   rid |-> 0, head |-> 0, body |-> 0]

\* The arguments recorded for a call that takes none, or that was rejected
\* before it used them.
NoCall == [args |-> NoArgs, discard |-> FALSE]

Last(op, o, t, res, call, fexc) ==
  [op |-> op, exc |-> o.exc, tx |-> t, res |-> res, call |-> call, fexc |-> fexc,
   \* the Connection when the operation was called
   ready0 |-> ready(conn, txs), slot0 |-> conn.tx, ntx0 |-> Len(txs)]

\* The bounds: MaxReq requests written by the caller's operations (the
\* RESETs that fail writes come on top), MaxTx Transaction objects.
Requests(c) == Cardinality({r \in 1..Len(c.resp) : c.resp[r].tag # "RESET"})

Within(o) ==
  /\ Requests(o.c) <= MaxReq
  /\ Len(o.txs) <= MaxTx

Finish(o) ==
  /\ Within(o)
  /\ courier' = o.c
  /\ txs' = o.txs
  /\ task' = IF o.exc = Blocked THEN "blocked" ELSE "idle"

\* The Transactions the caller operates on: the one in the Connection's
\* slot, and any other it holds that is not closed.
Held == {t \in 1..Len(txs) : txs[t].held /\ (t = conn.tx \/ ~txs[t].closed)}

Init ==
  /\ courier = NewCourier
  /\ txs = <<>>
  /\ results = <<>>
  /\ conn = [tx |-> 0, closed |-> FALSE, torn |-> 0]
  /\ runtx = [on |-> FALSE, tx |-> 0]
  /\ task = "idle"
  /\ last = [op |-> "init", exc |-> NoExc, tx |-> 0, res |-> 0, call |-> NoCall,
             fexc |-> NoExc, ready0 |-> TRUE, slot0 |-> 0, ntx0 |-> 0]

Created(o) == Len(o.txs) > Len(txs)
NewResult(o) == Append(results, Result(Len(o.txs), o.head, o.body))

RunExit(args, discard, o) ==
  /\ Finish(o)
  /\ conn' = IF Created(o) THEN [conn EXCEPT !.tx = Len(o.txs)] ELSE conn
  /\ results' = IF o.exc = NoExc THEN NewResult(o) ELSE results
  /\ last' = Last("run", o, IF Created(o) THEN Len(o.txs) ELSE 0,
                  IF o.exc = NoExc THEN Len(results) + 1 ELSE 0,
                  IF Created(o) THEN [args |-> args, discard |-> discard] ELSE NoCall, NoExc)
  /\ UNCHANGED runtx

\* Connection.run
Run(args, discard, env) ==
  /\ task = "idle"
  /\ Len(results) < MaxRes
  /\ RunExit(args, discard, Bolt3_run(Heap, conn, args, discard, env))

BeginExit(args, o) ==
  /\ Finish(o)
  /\ conn' = IF o.exc = NoExc THEN [conn EXCEPT !.tx = Len(o.txs)] ELSE conn
  /\ last' = Last("begin", o, IF o.exc = NoExc THEN Len(o.txs) ELSE 0, 0,
                  IF Created(o) THEN [args |-> args, discard |-> FALSE] ELSE NoCall, NoExc)
  /\ UNCHANGED <<results, runtx>>

\* Connection.begin
Begin(args, env) ==
  /\ task = "idle"
  /\ BeginExit(args, Bolt3_begin(Heap, conn, args, env))

TxRunExit(t, discard, o) ==
  /\ Finish(o)
  /\ results' = IF o.exc = NoExc THEN Append(results, Result(t, o.head, o.body)) ELSE results
  /\ last' = Last("tx_run", o, t, IF o.exc = NoExc THEN Len(results) + 1 ELSE 0,
                  IF o.exc = NoExc THEN [args |-> NoArgs, discard |-> discard] ELSE NoCall,
                  NoExc)
  /\ UNCHANGED <<conn, runtx>>

\* Transaction.run on a Transaction the caller holds.  The extras are those
\* of an explicit transaction, which run does not send.
TxRun(t, discard, env) ==
  /\ task = "idle"
  /\ Len(results) < MaxRes
  /\ TxRunExit(t, discard, Transaction_run(Heap, t, discard, NoExtras, env))

TxExit(op, t, o) ==
  /\ Finish(o)
  /\ last' = Last(op, o, t, 0, NoCall, NoExc)
  /\ UNCHANGED <<results, conn, runtx>>

\* Transaction.commit
TxCommit(t, env) ==
  /\ task = "idle"
  /\ TxExit("commit", t, Transaction_commit(Heap, t, env))

\* Transaction.rollback
TxRollback(t, env) ==
  /\ task = "idle"
  /\ TxExit("rollback", t, Transaction_rollback(Heap, t, env))

AnextExit(res, o) ==
  /\ Finish(o)
  /\ results' = IF o.exc = NoExc THEN [results EXCEPT ![res].yielded = Append(@, o.val)]
                ELSE results
  /\ last' = Last("anext", o, results[res].tx, res, NoCall, NoExc)
  /\ UNCHANGED <<conn, runtx>>

\* One step of "async for record in result"
Anext(res, env) ==
  /\ task = "idle"
  /\ AnextExit(res, anext(Heap, results[res], env))

ResultExit(op, res, o) ==
  /\ Finish(o)
  /\ last' = Last(op, o, results[res].tx, res, NoCall, NoExc)
  /\ UNCHANGED <<results, conn, runtx>>

\* Result.get_header
GetHeader(res, env) ==
  /\ task = "idle"
  /\ ResultExit("get_header", res, get_header(Heap, results[res], env))

\* Result.consume
Consume(res, env) ==
  /\ task = "idle"
  /\ ResultExit("consume", res, consume(Heap, results[res], env))

RunTxCallExit(args, coroutine, o) ==
  /\ Finish(o)
  /\ conn' = IF Created(o) /\ o.txs[Len(o.txs)].held THEN [conn EXCEPT !.tx = Len(o.txs)]
             ELSE conn
  /\ runtx' = IF o.exc = NoExc THEN [on |-> TRUE, tx |-> Len(o.txs)] ELSE runtx
  /\ last' = Last(IF o.exc = NoExc THEN "run_tx_call" ELSE "run_tx", o,
                  IF Created(o) /\ o.txs[Len(o.txs)].held THEN Len(o.txs) ELSE 0, 0,
                  IF Created(o) THEN [args |-> args, discard |-> coroutine] ELSE NoCall,
                  NoExc)
  /\ UNCHANGED results

\* Connection.run_tx up to the call of f: begin, then the check of f.
RunTxCall(args, coroutine, env) ==
  /\ task = "idle"
  /\ ~runtx.on
  /\ RunTxCallExit(args, coroutine, Bolt3_run_tx(Heap, conn, args, coroutine, env))

RunTxExit(o, e) ==
  /\ Finish(o)
  /\ runtx' = [on |-> FALSE, tx |-> 0]
  /\ last' = Last("run_tx", o, runtx.tx, 0, NoCall, e)
  /\ UNCHANGED <<results, conn>>

\* f returned: commit, and return f's value
RunTxReturn(env) ==
  /\ task = "idle"
  /\ runtx.on
  /\ RunTxExit(Transaction_commit(Heap, runtx.tx, env), NoExc)

\* What f may raise: an exception of its own, or the one the operation it
\* called last raised.
Raisable == {UserError} \cup ({last.exc} \ {NoExc})

\* f raised e: roll back and re-raise
RunTxRaise(e, env) ==
  /\ task = "idle"
  /\ runtx.on
  /\ RunTxExit(Bolt3_run_tx_except(Heap, runtx.tx, e, env), e)

\* What each operation would flush, seen as the far end stays quiet.
Flush(o) == Choices(courier, o.c.trace)

Next ==
  \/ \E args \in Calls, discard \in BOOLEAN :
       \E env \in Flush(Bolt3_run(Heap, conn, args, discard, Quiet)) :
         Run(args, discard, env)
  \/ \E args \in Calls : \E env \in Flush(Bolt3_begin(Heap, conn, args, Quiet)) :
       Begin(args, env)
  \/ \E t \in Held, discard \in BOOLEAN :
       \E env \in Flush(Transaction_run(Heap, t, discard, NoExtras, Quiet)) :
         TxRun(t, discard, env)
  \/ \E t \in Held : \E env \in Flush(Transaction_commit(Heap, t, Quiet)) :
       TxCommit(t, env)
  \/ \E t \in Held : \E env \in Flush(Transaction_rollback(Heap, t, Quiet)) :
       TxRollback(t, env)
  \/ \E res \in 1..Len(results) : \E env \in Flush(anext(Heap, results[res], Quiet)) :
       Anext(res, env)
  \/ \E res \in 1..Len(results) : \E env \in Flush(get_header(Heap, results[res], Quiet)) :
       GetHeader(res, env)
  \/ \E res \in 1..Len(results) : \E env \in Flush(consume(Heap, results[res], Quiet)) :
       Consume(res, env)
  \/ \E args \in Calls, coroutine \in BOOLEAN :
       \E env \in Flush(Bolt3_run_tx(Heap, conn, args, coroutine, Quiet)) :
         RunTxCall(args, coroutine, env)
  \/ /\ runtx.on
     /\ \E env \in Flush(Transaction_commit(Heap, runtx.tx, Quiet)) : RunTxReturn(env)
  \/ /\ runtx.on
     /\ \E e \in Raisable :
          \E env \in Flush(Transaction_rollback(Heap, runtx.tx, Quiet)) : RunTxRaise(e, env)

Spec == Init /\ [][Next]_vars

(***************************************************************************)
(* The caller calling Transaction.fail itself                              *)
(***************************************************************************)
\* The failures the caller passes: one of its own making and one that names
\* the first Response.
Failures == {BoltFailure(0), BoltFailure(1)}

\* The RESETs written so far.  fail writes one whenever the failure slot is
\* empty, however often it is called: the calls explored stop at MaxTx RESETs.
Resets(c) == Cardinality({r \in 1..Len(c.resp) : c.resp[r].tag = "RESET"})

FailExit(t, failure, o) ==
  /\ Finish(o)
  /\ last' = Last("fail", o, t, 0, NoCall, failure)
  /\ UNCHANGED <<results, conn, runtx>>

\* Transaction.fail, called by the caller on a Transaction it holds
TxFail(t, failure, env) ==
  /\ task = "idle"
  /\ Resets(courier) < MaxTx
  /\ FailExit(t, failure, fail(Heap, t, failure, env))

NextFail ==
  \/ Next /\ Requests(courier') <= MaxReqFail
  \/ \E t \in Held, failure \in Failures :
       \E env \in Flush(fail(Heap, t, failure, Quiet)) : TxFail(t, failure, env)

SpecFail == Init /\ [][NextFail]_vars

(***************************************************************************)
(* Connection.close                                                        *)
(***************************************************************************)
\* A faulty Suppress for comparison: no "except BoltConnectionLost: pass".
NoSuppress(o) == o

\* except BoltConnectionLost: pass
Suppress(o) == IF o.exc = BoltConnectionLost THEN Raise(o, NoExc) ELSE o

\* Bolt.close (the base class): the transport is torn down, after which
\* nothing can be sent.
TornDown(o) == [o EXCEPT !.c.lost = TRUE]

\* Bolt3.close; GOODBYE is written by the Connection, not by a Transaction.
Bolt3_close(o, cn, env) ==
  IF cn.closed THEN o
  ELSE TornDown(Suppress(send(_write(o, "GOODBYE", 0, NoExtras), env)))

\* Bolt.close (the base class) marks the Connection closed
Bolt_close(cn) == [cn EXCEPT !.closed = TRUE, !.torn = @ + 1]

\* the Connection after close
CloseExit(o) ==
  /\ Finish(o)
  /\ conn' = IF conn.closed THEN conn ELSE Bolt_close(conn)
  /\ last' = Last("close", o, 0, 0, NoCall, NoExc)
  /\ UNCHANGED <<results, runtx>>

\* Connection.close
Close(env) ==
  /\ task = "idle"
  /\ CloseExit(Bolt3_close(Heap, conn, env))

NextClose ==
  \/ Next /\ Requests(courier') <= MaxReqClose
  \/ \E env \in Flush(Bolt3_close(Heap, conn, Quiet)) : Close(env)

SpecClose == Init /\ [][NextClose]_vars

(***************************************************************************)
(* An illegal message                                                      *)
(***************************************************************************)
\* The inbound stream with a message that is not a Structure, or has an
\* unknown tag, delivered before its i-th message.
Garbled(inbound, i) ==
  SubSeq(inbound, 1, i - 1) \o <<Msg("ILLEGAL", 0, 0)>> \o SubSeq(inbound, i, Len(inbound))

\* stream.read_message is about to deliver an illegal message, once.
Garble(i) ==
  /\ task = "idle"
  /\ ~courier.illegal
  /\ \A j \in 1..Len(courier.inbound) : courier.inbound[j].kind # "ILLEGAL"
  /\ courier' = [courier EXCEPT !.inbound = Garbled(@, i)]
  /\ UNCHANGED <<txs, results, conn, runtx, task, last>>

NextIllegal ==
  \/ Next /\ Requests(courier') <= MaxReqIllegal
  \/ \E i \in 1..(Len(courier.inbound) + 1) : Garble(i)

SpecIllegal == Init /\ [][NextIllegal]_vars

(***************************************************************************)
(* Properties                                                              *)
(***************************************************************************)
Resp == 1..Len(courier.resp)
Queued == {courier.responses[i] : i \in 1..Len(courier.responses)}
Reads == {i \in 1..Len(courier.trace) : courier.trace[i].ev = "read"}
Writes == {i \in 1..Len(courier.trace) : courier.trace[i].ev = "write"}
Sends == {i \in 1..Len(courier.trace) : courier.trace[i].ev = "send"}

\* C1: Responses leave the queue in the order their requests were written:
\* the queue always holds the most recently written Responses in write
\* order, and they are exactly the Responses without a summary.  Every
\* RECORD and every summary a Response holds is the server's reply to that
\* Response's own request, and within one operation the reads go to
\* Responses in write order, a summary read being the last one its Response
\* gets (it dequeues it) and a RECORD read leaving its Response at the head.
QueueOrder ==
  /\ courier.responses =
       [i \in 1..Len(courier.responses) |->
          Len(courier.resp) - Len(courier.responses) + i]
  /\ \A r \in Resp :
       /\ (courier.resp[r].summary = None) <=> (r \in Queued)
       /\ courier.resp[r].summary # None => courier.resp[r].summary.of = r
       /\ \A i \in 1..Len(courier.resp[r].got) : courier.resp[r].got[i].of = r
  /\ \A i, j \in Reads :
       i < j => /\ courier.trace[i].rid <= courier.trace[j].rid
                /\ courier.trace[i].tag \in Summaries
                     => courier.trace[i].rid < courier.trace[j].rid
  /\ \A i \in Reads :
       courier.trace[i].tag = "RECORD" => courier.resp[courier.trace[i].rid].got # <<>>

\* One operation has read the replies to two requests, records among them,
\* and requests written before and after them are in the picture.
QueueOrderWitness ==
  /\ \E i, j \in Reads :
       /\ courier.trace[i].rid < courier.trace[j].rid
       /\ courier.trace[j].tag = "RECORD"
  /\ \E r \in Resp :
       /\ r > 2
       /\ courier.resp[r].got # <<>>
       /\ courier.resp[r].summary # None
  /\ courier.responses # <<>>

\* The RECORD messages the server has sent in reply to request r, read or not
Streamed(r) ==
  Cardinality({i \in 1..Len(courier.inbound) :
                 courier.inbound[i].kind = "RECORD" /\ courier.inbound[i].of = r})
  + Cardinality({<<q, i>> \in Resp \X (1..MaxRecords) :
                   /\ i <= Len(courier.resp[q].got)
                   /\ courier.resp[q].got[i].of = r})

\* C2: iteration yields the records of the Result's body request in the
\* order the server sent them, without loss or duplication: what has been
\* yielded followed by what is buffered is always what has been received,
\* which is the server's 1st, 2nd, ... record for that request.  Iteration
\* ends only when the buffer is empty and the summary is present, all the
\* records the server sent having been yielded.
IterationYieldsRecords ==
  \A res \in 1..Len(results) :
    LET response == courier.resp[results[res].body]
    IN /\ results[res].yielded \o response.records = response.got
       /\ \A i \in 1..Len(response.got) :
            response.got[i] = Msg("RECORD", results[res].body, i)
       /\ (last.op = "anext" /\ last.res = res /\ last.exc = StopAsyncIteration)
            => /\ response.records = <<>>
               /\ response.summary # None
               /\ response.summary.kind \in {"SUCCESS", "IGNORED"}
                    => Len(results[res].yielded) = Streamed(results[res].body)

\* An iteration has yielded MaxRecords records and ended, the records
\* having been buffered, summary included, by another operation's fetch.
IterationWitness ==
  /\ last.op = "anext"
  /\ last.exc = StopAsyncIteration
  /\ Len(results[last.res].yielded) = MaxRecords
  /\ courier.resp[results[last.res].body].summary.kind = "SUCCESS"
  /\ Reads = {}

\* C3: whenever a FAILURE has been read from the stream, by whichever
\* operation, a RESET is written and flushed before any other request is
\* written: no request is written between the read of a FAILURE and the
\* flush of the next RESET.
ResetFollowsFailure == \A r \in Resp : ~courier.resp[r].stale

ResetWrites == {i \in Writes : courier.trace[i].tag = "RESET"}
ResultOps == {"anext", "get_header", "consume"}

\* C4: when an iteration step, get_header or consume raises a server
\* FAILURE, the operation has read that FAILURE, then written one RESET and
\* nothing else, flushed it in its one send, and read every outstanding
\* reply up to the RESET's SUCCESS; the transaction is closed, its failure
\* slot holds the failure raised, and an iteration step has no record left
\* in its buffer.
FailureResets ==
  (last.op \in ResultOps /\ last.exc.type = "BoltFailure") =>
    /\ Cardinality(ResetWrites) = 1
    /\ \E f \in Reads, w \in ResetWrites, s \in Sends :
         /\ f < w /\ w < s
         /\ Writes = {w} /\ Sends = {s}
         /\ courier.trace[f] = Event("read", "FAILURE", last.exc.resp, NoExtras, TRUE)
         /\ \A i \in Reads : i < f \/ i > s \/ i = f
         /\ courier.trace[s].ok
         /\ courier.trace[Len(courier.trace)] =
              Event("read", "SUCCESS", courier.trace[w].rid, NoExtras, TRUE)
    /\ courier.responses = <<>> /\ courier.outbuf = <<>> /\ courier.inbound = <<>>
    /\ ~courier.unreset /\ ~courier.server_failed
    /\ txs[last.tx].closed
    /\ txs[last.tx].failure = last.exc
    /\ last.op = "anext" =>
         /\ courier.resp[results[last.res].body].records = <<>>
         /\ results[last.res].yielded = courier.resp[results[last.res].body].got

\* An iteration has yielded a record and then raised the FAILURE that ended
\* its own body request.
FailureResetsWitness ==
  /\ last.op = "anext"
  /\ last.exc = BoltFailure(results[last.res].body)
  /\ Len(results[last.res].yielded) >= 1
  /\ txs[last.tx].failure = last.exc

Open == {t \in 1..Len(txs) : txs[t].held /\ ~txs[t].closed}

\* C5: at most one Transaction is not closed (a Transaction whose begin
\* raised is held by nobody and does not count), and it is the one in the
\* Connection's slot; the Connection is ready exactly when there is none;
\* run and begin called on a Connection that is not ready raise
\* BoltTransactionError, create no Transaction, write nothing and leave the
\* slot as it is.
OneOpenTransaction ==
  /\ Cardinality(Open) <= 1
  /\ \A t \in Open : conn.tx = t
  /\ ready(conn, txs) <=> (Open = {})
  /\ (last.op \in {"run", "begin"} /\ ~last.ready0) =>
       /\ last.exc = BoltTransactionError
       /\ Len(txs) = last.ntx0
       /\ conn.tx = last.slot0
       /\ courier.trace = <<>>
       /\ ~ready(conn, txs)

\* begin has been refused while the explicit transaction that followed an
\* auto-commit one is open.
OneOpenTransactionWitness ==
  /\ last.op = "begin"
  /\ ~last.ready0
  /\ last.exc = BoltTransactionError
  /\ Len(txs) >= 2
  /\ Open = {conn.tx}
  /\ ~txs[conn.tx].autocommit

\* C6: a Connection.run that was not refused has written RUN with the
\* transaction's extras, then PULL_ALL or DISCARD_ALL, then sent once, and
\* has done nothing else; its transaction is closed whether the send raised
\* or not, so the Connection is ready, and no reply to the two requests has
\* been read.
RunSendsOnce ==
  (last.op = "run" /\ last.tx # 0) =>
    /\ last.exc \in {NoExc, BoltConnectionLost}
    /\ courier.trace =
         <<Event("write", "RUN", Len(courier.resp) - 1, Extras(last.call.args), TRUE),
           Event("write", BodyTag(last.call.discard), Len(courier.resp), NoExtras, TRUE),
           Event("send", "", 0, NoExtras, last.exc = NoExc)>>
    /\ last.exc = NoExc => courier.outbuf = <<>>
    /\ conn.tx = last.tx
    /\ txs[last.tx].autocommit
    /\ txs[last.tx].closed
    /\ ready(conn, txs)
    /\ \A r \in {Len(courier.resp) - 1, Len(courier.resp)} :
         /\ courier.resp[r].summary = None
         /\ courier.resp[r].got = <<>>
         /\ r \in Queued
    /\ last.exc = NoExc =>
         /\ last.res = Len(results)
         /\ results[last.res] = Result(last.tx, Len(courier.resp) - 1, Len(courier.resp))

\* A run with every argument and discard has returned its Result.
RunSendsOnceWitness ==
  /\ last.op = "run"
  /\ last.exc = NoExc
  /\ last.call.discard
  /\ last.call.args.readonly
  /\ last.call.args.timeout # 0
  /\ courier.inbound # <<>>
  /\ ready(conn, txs)

\* C7: when f raises, run_tx has rolled the transaction back, raises f's
\* exception and leaves the Connection ready, as long as the connection is
\* not lost and the server fails nothing in the rollback.
RunTxReraises ==
  (/\ last.op = "run_tx"
   /\ last.fexc # NoExc
   /\ ~courier.lost
   /\ \A i \in Reads : courier.trace[i].tag # "FAILURE") =>
    /\ last.exc = last.fexc
    /\ ready(conn, txs)

\* C8: a run_tx that raises TypeError has created no Transaction, written
\* nothing, left the slot as it was and the Connection as ready as it was.
RunTxTypeErrorFirst ==
  (last.op = "run_tx" /\ last.exc = TypeError) =>
    /\ Len(txs) = last.ntx0
    /\ courier.trace = <<>>
    /\ conn.tx = last.slot0
    /\ ready(conn, txs) = last.ready0

\* C9: a Response is given a summary at most once and no record after it;
\* it holds a summary exactly if one was put, and a Response that has left
\* the queue holds the one summary put.  The records it has been given are
\* those it holds or has handed out.
ResponseLifecycle ==
  \A r \in Resp :
    /\ courier.resp[r].puts <= 1
    /\ ~courier.resp[r].late
    /\ (courier.resp[r].puts = 1) <=> (courier.resp[r].summary # None)
    /\ r \notin Queued => /\ courier.resp[r].puts = 1
                          /\ courier.resp[r].summary.kind \in Summaries
    /\ r \in Queued => courier.resp[r].puts = 0
    /\ \E k \in 0..Len(courier.resp[r].got) :
         courier.resp[r].records = SubSeq(courier.resp[r].got, k + 1, Len(courier.resp[r].got))

\* One Response has its records and its summary and has left the queue,
\* another has a record and is still at the head, waiting for its summary.
ResponseLifecycleWitness ==
  /\ \E r \in Resp : /\ courier.resp[r].got # <<>>
                     /\ courier.resp[r].puts = 1
                     /\ r \notin Queued
  /\ \E r \in Queued : /\ courier.resp[r].got # <<>>
                       /\ r = first(courier.responses)

\* C10: a Transaction is closed exactly if commit or rollback has been left
\* (by return or by exception, once past the checks), fail has been called,
\* or the send of its auto-commit run has been left.
ClosedIff ==
  \A t \in 1..Len(txs) :
    txs[t].closed <=> (txs[t].did \cap {"commit", "rollback", "fail", "run_send"} # {})

ResetsBy(t) ==
  Cardinality({r \in Resp : courier.resp[r].tag = "RESET" /\ courier.resp[r].tx = t})

\* C11: however often fail is called on a Transaction, and with whatever
\* failures, the Transaction writes one RESET in all, on a connection that
\* is not lost: every call of fail after the first writes nothing.
FailIdempotent ==
  ~courier.lost => \A t \in 1..Len(txs) : ResetsBy(t) <= 1

Goodbyes == {r \in Resp : courier.resp[r].tag = "GOODBYE"}

\* close leaves the Connection closed, its transport torn down once and one
\* GOODBYE written, and raises nothing
ClosedOnce ==
  /\ conn.torn <= 1
  /\ conn.closed <=> (conn.torn = 1)
  /\ conn.closed <=> (Cardinality(Goodbyes) = 1)
  /\ Cardinality(Goodbyes) <= 1
  /\ last.op = "close" => /\ conn.closed
                          /\ last.exc = NoExc
                          /\ courier.lost

\* close on a closed Connection changes nothing: it writes, sends and reads
\* nothing and leaves every object as it is
ClosedAgain ==
  (last'.op = "close" /\ conn.closed) =>
    /\ courier' = [courier EXCEPT !.trace = <<>>]
    /\ UNCHANGED <<txs, results, conn, runtx, task>>
    /\ last'.exc = NoExc

\* C12: across any number of close calls one GOODBYE is written and the
\* transport is torn down once, also when the send of GOODBYE raises
\* BoltConnectionLost, which close does not raise; a close of a closed
\* Connection writes nothing and changes no state.
CloseIdempotent == []ClosedOnce /\ [][ClosedAgain]_vars

\* A second close has done nothing, on a Connection whose first close lost
\* the connection in the send of GOODBYE: the GOODBYE is still buffered.
CloseIdempotentWitness ==
  /\ last.op = "close"
  /\ courier.trace = <<>>
  /\ conn.closed
  /\ conn.torn = 1
  /\ \E i \in 1..Len(courier.outbuf) : courier.outbuf[i].tag = "GOODBYE"

\* C13: once fetch has raised BoltError on an illegal message, the
\* Connection is unusable: no later operation writes a request, sends or
\* reads a reply.
Defunct == [][courier.illegal => courier'.trace = <<>>]_vars

\* The operations that check for misuse before anything else
Checked == {"run", "begin", "tx_run", "commit", "rollback"}

\* The step is a call the Transaction or the Connection must reject
Misuse ==
  \/ last'.op \in {"tx_run", "commit", "rollback"} /\ txs[last'.tx].closed
  \/ last'.op \in {"commit", "rollback"} /\ txs[last'.tx].autocommit
  \/ last'.op \in {"run", "begin"} /\ ~ready(conn, txs)

\* The step wrote, sent and read nothing, queued no Response and changed
\* no Transaction, no Result and not the Connection's slot
Untouched ==
  /\ courier'.trace = <<>>
  /\ courier' = [courier EXCEPT !.trace = <<>>]
  /\ UNCHANGED <<txs, results, conn, runtx, task>>

Rejections ==
  /\ Misuse => last'.exc = BoltTransactionError
  /\ (last'.op \in Checked /\ last'.exc = BoltTransactionError) => Untouched

\* C14: run, commit or rollback on a closed Transaction, commit or rollback
\* on an auto-commit Transaction, and run or begin on a Connection whose
\* Transaction is open raise BoltTransactionError, and an operation that
\* raises it has written nothing, queued no Response and changed no closed
\* flag, no failure slot and not the Connection's slot.
RejectionsTouchNothing == [][Rejections]_vars

\* a commit was rejected on a closed explicit Transaction while Responses
\* were queued
RejectionsWitness ==
  /\ last.op = "commit"
  /\ last.exc = BoltTransactionError
  /\ txs[last.tx].closed
  /\ ~txs[last.tx].autocommit
  /\ courier.responses # <<>>

\* C15: the head Response of a Result has its summary before the body
\* Response is given any record, and iteration yields a record only of a
\* Result whose head summary is a SUCCESS, which names the fields.
HeaderBeforeRecords ==
  \A res \in 1..Len(results) :
    /\ courier.resp[results[res].body].got # <<>>
         => courier.resp[results[res].head].summary # None
    /\ results[res].yielded # <<>>
         => courier.resp[results[res].head].summary.kind = "SUCCESS"

\* iteration has just yielded a record
HeaderBeforeRecordsWitness ==
  /\ last.op = "anext"
  /\ last.exc = NoExc
  /\ results[last.res].yielded # <<>>
  /\ courier.resp[results[last.res].body].got # <<>>
  /\ courier.resp[results[last.res].head].summary.kind = "SUCCESS"

\* The last operation was a begin that constructed a Transaction
Began == last.op = "begin" /\ Len(txs) > last.ntx0

\* begin has written BEGIN and nothing else: BEGIN is in the buffer and its
\* Response, without a summary, in the queue
Pipelined ==
  /\ Len(courier.trace) = 1
  /\ last.exc = NoExc
  /\ \E i \in 1..Len(courier.outbuf) : courier.outbuf[i].rid = courier.trace[1].rid
  /\ \E i \in 1..Len(courier.responses) : courier.responses[i] = courier.trace[1].rid
  /\ courier.resp[courier.trace[1].rid].summary = None

\* begin has written BEGIN, sent and fetched: the buffer is flushed and the
\* queue read until it was empty or a FAILURE was read
Synced ==
  /\ Len(courier.trace) >= 2
  /\ courier.trace[2].ev = "send"
  /\ \A i \in 3..Len(courier.trace) : courier.trace[i].ev = "read"
  /\ IF courier.trace[2].ok
     THEN /\ courier.outbuf = <<>>
          /\ Len(courier.trace) >= 3
          /\ \/ last.exc = NoExc /\ courier.responses = <<>>
                  /\ courier.resp[courier.trace[1].rid].summary # None
             \/ last.exc.type = "BoltFailure"
     ELSE Len(courier.trace) = 2 /\ last.exc = BoltConnectionLost

\* C16: begin writes BEGIN with the extras of its arguments first; with
\* bookmarks it then sends and fetches, without bookmarks it does neither
\* and leaves BEGIN buffered and its Response queued.
BeginSyncsIffBookmarks ==
  Began =>
    /\ courier.trace # <<>>
    /\ courier.trace[1].ev = "write"
    /\ courier.trace[1].tag = "BEGIN"
    /\ courier.trace[1].extras = Extras(last.call.args)
    /\ IF last.call.args.bookmarks # <<>> THEN Synced ELSE Pipelined

\* a begin without bookmarks has left its BEGIN buffered behind an earlier
\* request that is buffered too
BeginSyncsIffBookmarksWitness ==
  /\ Began
  /\ last.call.args.bookmarks = <<>>
  /\ Len(courier.outbuf) >= 2
  /\ courier.outbuf[Len(courier.outbuf)].tag = "BEGIN"

\* a begin with bookmarks has sent and read the SUCCESS of its BEGIN
BeginSyncedWitness ==
  /\ Began
  /\ last.call.args.bookmarks # <<>>
  /\ last.exc = NoExc
  /\ courier.resp[courier.trace[1].rid].summary.kind = "SUCCESS"

\* The last operation was a run_tx whose begin constructed a Transaction
RunTxBeganTx == last.op \in {"run_tx_call", "run_tx"} /\ Len(txs) > last.ntx0

\* C17: the BEGIN that run_tx writes carries the extras that begin would
\* write for the same arguments: with a timeout, tx_timeout in milliseconds.
RunTxTimeout ==
  (RunTxBeganTx /\ last.call.args.timeout # 0) =>
    /\ "tx_timeout" \in courier.trace[1].extras.keys
    /\ courier.trace[1].extras.tx_timeout = Extras(last.call.args).tx_timeout

\* C18: a step of iteration that only reads (fail was not called) reads
\* no reply of a request written after the body request of its Result:
\* get_record stops fetching once its Response has a record or its summary.
GetRecordStops ==
  (last.op = "anext" /\ \A i \in 1..Len(courier.trace) : courier.trace[i].ev = "read")
    => \A i \in 1..Len(courier.trace) : courier.trace[i].rid <= results[last.res].body

\* C19: the failure stored in a Transaction is the FAILURE of a request
\* that this Transaction wrote.
FailureAttributed ==
  \A t \in 1..Len(txs) :
    txs[t].failure.type = "BoltFailure" => courier.resp[txs[t].failure.resp].tx = t

\* the request of the Response at the head of the queue is still buffered
HeadUnflushed ==
  /\ courier.responses # <<>>
  /\ \E i \in 1..Len(courier.outbuf) : courier.outbuf[i].rid = first(courier.responses)

\* C20: on a connection that is not lost, no operation waits for an inbound
\* message while the request of the head Response is unflushed.
NoWaitOnUnflushed == (task = "blocked" /\ ~courier.lost) => ~HeadUnflushed

====
